---- MODULE Spec2Model ----
(***************************************************************************)
(* Model of the sensor-registry maintenance scripts of bmad-autopilot:     *)
(*   scripts/add-mnemonics.py          (the Assigner)                      *)
(*   scripts/remove-alarm-mnemonics.py (the Remover)                       *)
(*   validate_metric_keys.py           (the Validator)                     *)
(*                                                                         *)
(* A text is a sequence of tokens.  Every token stands for the literal     *)
(* characters it is written with; the regular expressions of the scripts   *)
(* are evaluated over these tokens.  The alphabet is chosen so that no     *)
(* literal of a regular expression starts or ends inside a token.          *)
(***************************************************************************)
EXTENDS Integers, Sequences, FiniteSets, TLC

\* ------------------------------------------------------------------ bounds
\* Most fields in one registry text.
MaxFields == 2
\* Most field lists in one registry text.
MaxLists == 2
\* Tokens the file object hands to the disk in one piece.
ChunkTokens == 24
\* Most tag-like constructs in the widget files together.
MaxRefs == 2

\* ------------------------------------------------------------------ tokens
SP == " "
NL == "\n"
Whitespace == {SP, NL}

Min(a, b) == IF a < b THEN a ELSE b

\* Field keys the registry texts are built from: "depth" is in the lookup
\* table, "fooBar" is not.
FieldKeys == {"depth", "fooBar"}

\* The characters of the words whose letters the scripts look at.
CharsOf(w) ==
  CASE w = "depth"  -> <<"d", "e", "p", "t", "h">>
    [] w = "fooBar" -> <<"f", "o", "o", "B", "a", "r">>
    [] OTHER        -> <<w>>

\* str.upper() on one character.
UpperChar(c) ==
  CASE c = "a" -> "A" [] c = "b" -> "B" [] c = "d" -> "D" [] c = "e" -> "E"
    [] c = "f" -> "F" [] c = "h" -> "H" [] c = "o" -> "O" [] c = "p" -> "P"
    [] c = "r" -> "R" [] c = "t" -> "T" [] OTHER -> c

RECURSIVE JoinChars(_)
JoinChars(cs) == IF cs = <<>> THEN "" ELSE Head(cs) \o JoinChars(Tail(cs))

\* key_name.upper()[:5]
Upper5(key) ==
  LET up == [i \in 1..Len(CharsOf(key)) |-> UpperChar(CharsOf(key)[i])]
  IN  JoinChars(SubSeq(up, 1, Min(5, Len(up))))

\* The entries of the MNEMONICS dict for the keys of the model (the dict is
\* keyed by field name only).
MNEMONICS == [depth |-> "DPT", offset |-> "OFS", rpm |-> "RPM"]

\* Words that occur between quotes in a registry text.
Words == FieldKeys \cup {"Lbl", "OLD", "a"}
           \cup {MNEMONICS[k] : k \in DOMAIN MNEMONICS}
           \cup {Upper5(k) : k \in FieldKeys}

Quote(w) == "'" \o w \o "'"
QuotedWords == {Quote(w) : w \in Words}
Unquote(tok) == CHOOSE w \in Words : Quote(w) = tok

HasTok(t, tok) == \E i \in 1..Len(t) : t[i] = tok

\* ------------------------------------------------- str.split / str.join
RECURSIVE SplitFrom(_, _, _)
SplitFrom(t, i, cur) ==
  IF i > Len(t) THEN <<cur>>
  ELSE IF t[i] = NL THEN <<cur>> \o SplitFrom(t, i + 1, <<>>)
  ELSE SplitFrom(t, i + 1, Append(cur, t[i]))

\* text.split('\n')
SplitLines(t) == SplitFrom(t, 1, <<>>)

RECURSIVE JoinLines(_)
\* '\n'.join(lines)
JoinLines(ls) ==
  IF ls = <<>> THEN <<>>
  ELSE IF Len(ls) = 1 THEN ls[1]
  ELSE ls[1] \o <<NL>> \o JoinLines(Tail(ls))

RECURSIVE SkipWs(_, _)
\* \s* from position i: the first position at or after i holding no whitespace.
SkipWs(t, i) ==
  IF i <= Len(t) /\ t[i] \in Whitespace THEN SkipWs(t, i + 1) ELSE i

RECURSIVE Spaces(_)
Spaces(n) == IF n = 0 THEN <<>> ELSE <<SP>> \o Spaces(n - 1)

\* len(line) - len(line.lstrip())
Indent(line) == SkipWs(line, 1) - 1

\* ------------------------------------------------------------- Assigner
\* ' ' * indent + f"mnemonic: '{mnemonic}',"
MnemonicLine(indent, mnemonic) ==
  Spaces(indent) \o <<"mnemonic:", SP, Quote(mnemonic), ",">>

\* MNEMONICS.get(key_name), with the fallback of the "if not mnemonic" branch.
ResolveMnemonic(key) ==
  IF key \in DOMAIN MNEMONICS THEN MNEMONICS[key] ELSE Upper5(key)

RECURSIVE InsertAfterLabels(_, _, _)
\* The loop over enumerate(lines): every line is kept, and a label line that
\* is not the last line of the field is followed by the mnemonic line.
InsertAfterLabels(lines, i, mnemonic) ==
  IF i > Len(lines) THEN <<>>
  ELSE (IF HasTok(lines[i], "label:") /\ i < Len(lines)
          THEN <<lines[i], MnemonicLine(Indent(lines[i]), mnemonic)>>
          ELSE <<lines[i]>>)
       \o InsertAfterLabels(lines, i + 1, mnemonic)

\* add_mnemonic_to_field without the test for a mnemonic already present.
add_mnemonic_to_field_NoTest(field_text, key_name) ==
  JoinLines(InsertAfterLabels(SplitLines(field_text), 1,
                              ResolveMnemonic(key_name)))

add_mnemonic_to_field(field_text, key_name) ==
  IF HasTok(field_text, "mnemonic:") THEN field_text
  ELSE JoinLines(InsertAfterLabels(SplitLines(field_text), 1,
                                   ResolveMnemonic(key_name)))

\* The console line add_mnemonic_to_field prints for a key without an entry.
FieldWarnings(field_text, key_name) ==
  IF HasTok(field_text, "mnemonic:") \/ key_name \in DOMAIN MNEMONICS
    THEN <<>>
    ELSE <<key_name>>

RECURSIVE FirstPair(_, _, _, _)
\* The lazy scan "[\s\S]*?" up to the first position at or after i where
\* token a is directly followed by token b; 0 when there is none.
FirstPair(t, i, a, b) ==
  IF i + 1 > Len(t) THEN 0
  ELSE IF t[i] = a /\ t[i + 1] = b THEN i
  ELSE FirstPair(t, i + 1, a, b)

\* field_pattern tried at position i:
\*   (\{[\s]*key:\s*['"](\w+)['"],[\s\S]*?\}),
\* ok, the captured key, and the position of the closing brace of group 1.
FieldMatchAt(t, i) ==
  IF i > Len(t) \/ t[i] # "{" THEN [ok |-> FALSE, key |-> "", close |-> 0]
  ELSE
    LET j == SkipWs(t, i + 1)
        k == SkipWs(t, j + 1)
        head == /\ j <= Len(t) /\ t[j] = "key:"
                /\ k + 1 <= Len(t) /\ t[k] \in QuotedWords /\ t[k + 1] = ","
        m == IF head THEN FirstPair(t, k + 2, "}", ",") ELSE 0
    IN  [ok |-> m # 0, key |-> IF m # 0 THEN Unquote(t[k]) ELSE "", close |-> m]

RECURSIVE NextFieldMatch(_, _)
\* finditer: the leftmost position at or after pos where field_pattern matches.
NextFieldMatch(t, pos) ==
  IF pos > Len(t) THEN 0
  ELSE IF FieldMatchAt(t, pos).ok THEN pos
  ELSE NextFieldMatch(t, pos + 1)

RECURSIVE ProcessFrom(_, _, _)
\* The loop of process_file over the matches: the text between the fields is
\* copied, every matched field goes through add_mnemonic_to_field.
ProcessFrom(t, pos, last_end) ==
  LET i == NextFieldMatch(t, pos)
  IN  IF i = 0 THEN [text |-> SubSeq(t, last_end + 1, Len(t)), out |-> <<>>]
      ELSE LET mt   == FieldMatchAt(t, i)
               fld  == SubSeq(t, i, mt.close)
               rest == ProcessFrom(t, mt.close + 2, mt.close)
           IN  [text |-> SubSeq(t, last_end + 1, i - 1)
                           \o add_mnemonic_to_field(fld, mt.key)
                           \o rest.text,
                out  |-> FieldWarnings(fld, mt.key) \o rest.out]

\* The text process_file writes back for the text it read.
AssignText(t) == ProcessFrom(t, 1, 0).text
\* The keys process_file warns about, in order.
AssignWarnings(t) == ProcessFrom(t, 1, 0).out

\* -------------------------------------------------------------- Remover
\* alarm_metrics_pattern tried at position i:
\*   (alarmMetrics:\s*\[)(.*?)(\],)      with re.DOTALL
AlarmMatchAt(t, i) ==
  IF i > Len(t) \/ t[i] # "alarmMetrics:" THEN [ok |-> FALSE, open |-> 0, close |-> 0]
  ELSE
    LET j == SkipWs(t, i + 1)
        m == IF j <= Len(t) /\ t[j] = "[" THEN FirstPair(t, j + 1, "]", ",") ELSE 0
    IN  [ok |-> m # 0, open |-> j, close |-> m]

RECURSIVE NextAlarmMatch(_, _)
NextAlarmMatch(t, pos) ==
  IF pos > Len(t) THEN 0
  ELSE IF AlarmMatchAt(t, pos).ok THEN pos
  ELSE NextAlarmMatch(t, pos + 1)

\* [line for line in lines if 'mnemonic:' not in line]
FilterLines(lines) == SelectSeq(lines, LAMBDA l : ~HasTok(l, "mnemonic:"))

\* prefix + '\n'.join(filtered_lines) + suffix, for the body of one match
remove_mnemonics_from_block(body) == JoinLines(FilterLines(SplitLines(body)))

RECURSIVE SubFrom(_, _)
\* alarm_metrics_pattern.sub(remove_mnemonics_from_block, content)
SubFrom(t, pos) ==
  LET i == NextAlarmMatch(t, pos)
  IN  IF i = 0 THEN SubSeq(t, pos, Len(t))
      ELSE LET mt == AlarmMatchAt(t, i)
           IN  SubSeq(t, pos, mt.open)
                 \o remove_mnemonics_from_block(SubSeq(t, mt.open + 1, mt.close - 1))
                 \o <<"]", ",">>
                 \o SubFrom(t, mt.close + 2)

RemoveText(t) == SubFrom(t, 1)

\* ------------------------------------------------------- registry texts
\* The field definitions the registry texts are built from: the shape a
\* field is written in, and its key.
FieldKinds ==
  { [shape |-> "multi",       key |-> "depth"],
    [shape |-> "single",      key |-> "fooBar"],
    [shape |-> "labelLast",   key |-> "depth"],
    [shape |-> "hasMnemonic", key |-> "fooBar"],
    [shape |-> "nested",      key |-> "depth"],
    [shape |-> "noLabel",     key |-> "depth"],
    [shape |-> "twoLabels",   key |-> "fooBar"] }

\* The field definitions also written without the trailing comma.
OpenFieldKinds ==
  { [shape |-> "multi",  key |-> "depth"],
    [shape |-> "single", key |-> "fooBar"] }

FieldSpecs ==
  {[shape |-> k.shape, key |-> k.key, comma |-> TRUE] : k \in FieldKinds}
    \cup {[shape |-> k.shape, key |-> k.key, comma |-> FALSE] :
            k \in OpenFieldKinds}

KeyDecl(key) == <<"key:", SP, Quote(key), ",">>
LabelDecl == <<"label:", SP, Quote("Lbl")>>

\* The text of one field definition; the brace is indented by one space and
\* the properties by two.
FieldBody(f) ==
  CASE f.shape = "multi" ->
         <<"{", NL>> \o Spaces(2) \o KeyDecl(f.key) \o <<NL>>
           \o Spaces(2) \o LabelDecl \o <<",", NL>> \o Spaces(1) \o <<"}">>
    [] f.shape = "single" ->
         <<"{", SP>> \o KeyDecl(f.key) \o <<SP>> \o LabelDecl \o <<SP, "}">>
    [] f.shape = "labelLast" ->
         <<"{", SP>> \o KeyDecl(f.key) \o <<NL>>
           \o Spaces(2) \o LabelDecl \o <<SP, "}">>
    [] f.shape = "hasMnemonic" ->
         <<"{", NL>> \o Spaces(2) \o KeyDecl(f.key) \o <<NL>>
           \o Spaces(2) \o LabelDecl \o <<",", NL>>
           \o Spaces(2) \o <<"mnemonic:", SP, Quote("OLD"), ",", NL>>
           \o Spaces(1) \o <<"}">>
    [] f.shape = "nested" ->
         <<"{", NL>> \o Spaces(2) \o KeyDecl(f.key) \o <<NL>>
           \o Spaces(2) \o LabelDecl \o <<",", NL>>
           \o Spaces(2) \o <<"options:", SP, "[", Quote("a"), "]", ",", NL>>
           \o Spaces(1) \o <<"}">>
    [] f.shape = "noLabel" ->
         <<"{", NL>> \o Spaces(2) \o KeyDecl(f.key) \o <<NL>>
           \o Spaces(1) \o <<"}">>
    [] f.shape = "twoLabels" ->
         <<"{", NL>> \o Spaces(2) \o KeyDecl(f.key) \o <<NL>>
           \o Spaces(2) \o LabelDecl \o <<",", NL>>
           \o Spaces(2) \o LabelDecl \o <<",", NL>> \o Spaces(1) \o <<"}">>

FieldText(f) ==
  Spaces(1) \o FieldBody(f) \o (IF f.comma THEN <<",">> ELSE <<>>) \o <<NL>>

RECURSIVE FieldsText(_)
FieldsText(fs) ==
  IF fs = <<>> THEN <<>> ELSE FieldText(Head(fs)) \o FieldsText(Tail(fs))

\* The field sequences of n fields: only the last field of a list may lack
\* the trailing comma.
FieldSeqs(n) ==
  { fs \in [1..n -> FieldSpecs] : \A i \in 1..(n - 1) : fs[i].comma }

\* The field lists of n fields.  The closing bracket of a "fields" list is
\* followed by a comma; an "alarmMetrics" list, the last property of a sensor
\* block, is written with or without it.
ListSpecs(n) ==
  { l \in [alarm : BOOLEAN, closeComma : BOOLEAN, fields : FieldSeqs(n)] :
      l.alarm \/ l.closeComma }

ListText(l) ==
  <<IF l.alarm THEN "alarmMetrics:" ELSE "fields:", SP, "[", NL>>
    \o FieldsText(l.fields)
    \o <<"]">> \o (IF l.closeComma THEN <<",">> ELSE <<>>) \o <<NL>>

RECURSIVE ListsText(_)
ListsText(ls) ==
  IF ls = <<>> THEN <<>> ELSE ListText(Head(ls)) \o ListsText(Tail(ls))

RECURSIVE RegistrySpecs(_, _)
\* The sequences of at most nl field lists holding at most nf fields together.
RegistrySpecs(nl, nf) ==
  IF nl = 0 \/ nf = 0 THEN {<<>>}
  ELSE {<<>>} \cup
       UNION { { <<l>> \o r : l \in ListSpecs(n),
                              r \in RegistrySpecs(nl - 1, nf - n) } :
               n \in 1..nf }

\* The registry files a run may find.
RegistryTexts ==
  {ListsText(r) : r \in RegistrySpecs(MaxLists, MaxFields) \ {<<>>}}

\* ------------------------------------------------------------ Validator
\* The text of a widget file is a sequence of tokens [k, v]: a tag opening
\* ("<Cell"), a tag closing ("/>", the only token holding a ">"), a space, or
\* an attribute name="value" whose value is the sequence v of its pieces.
WTok(k, v) == [k |-> k, v |-> v]
TagOpen == WTok("open", <<"<Cell">>)
TagClose == WTok("close", <<"/>">>)
WSpace == WTok("sp", <<SP>>)

\* The words written in lowercase letters only: what [a-z]+ matches.
LowerWords == {"depth", "engine", "radar"}

\* The virtual metric suffixes.
Suffixes == {".min", ".max", ".avg"}

\* The tag-like constructs the widget files are built from: the order of the
\* attributes (S: sensorType, M: metricKey), and their values.
Constructs ==
  { [order |-> "SM", sensor |-> "depth", metric |-> <<"depth", ".avg">>],
    [order |-> "SM", sensor |-> "depth", metric |-> <<"depth">>],
    [order |-> "SM", sensor |-> "depth", metric |-> <<"coolant", ".max">>],
    [order |-> "SM", sensor |-> "depth", metric |-> <<"depth", ".min", ".max">>],
    [order |-> "SM", sensor |-> "radar", metric |-> <<"depth">>],
    [order |-> "MS", sensor |-> "depth", metric |-> <<"coolant">>],
    [order |-> "S",  sensor |-> "depth", metric |-> <<>>],
    [order |-> "M",  sensor |-> "",      metric |-> <<"coolant">>] }

ConstructText(c) ==
  LET sa == <<WSpace, WTok("sensorType", <<c.sensor>>)>>
      ma == <<WSpace, WTok("metricKey", c.metric)>>
  IN  <<TagOpen>>
        \o (CASE c.order = "SM" -> sa \o ma
              [] c.order = "MS" -> ma \o sa
              [] c.order = "S"  -> sa
              [] c.order = "M"  -> ma)
        \o <<WSpace, TagClose>>

RECURSIVE FileTexts(_)
\* The widget file texts of n constructs.
FileTexts(n) ==
  IF n = 0 THEN {<<>>}
  ELSE {ConstructText(c) \o t : c \in Constructs, t \in FileTexts(n - 1)}

\* src/widgets with n constructs in DepthWidget.tsx and m in CustomWidget.tsx
\* (a file is absent for -1), beside a file that is no widget.
IsWidgetDir(dir, n, m) ==
  \E t \in FileTexts(IF n < 0 THEN 0 ELSE n),
     u \in FileTexts(IF m < 0 THEN 0 ELSE m) :
    dir = ("index.ts" :> ConstructText(CHOOSE c \in Constructs :
                           c.order = "SM" /\ c.sensor = "radar"))
            @@ (IF n < 0 THEN <<>> ELSE "DepthWidget.tsx" :> t)
            @@ (IF m < 0 THEN <<>> ELSE "CustomWidget.tsx" :> u)

\* widgets_dir.glob('*Widget.tsx'): the names that end in Widget.tsx.
WidgetFileNames == {"DepthWidget.tsx", "CustomWidget.tsx"}
Glob(dir) == DOMAIN dir \cap WidgetFileNames

\* The schema maps the extraction of sensorSchemas.ts may have produced.
SchemaMaps ==
  { [depth |-> <<"depth", "depthSource", "offset">>, engine |-> <<"rpm">>],
    [depth |-> <<"coolant", "offset">>, radar |-> <<"depth">>] }

\* re.sub(r'\.(min|max|avg)$', '', metric_key)
StripSuffix(metric_key) ==
  IF Len(metric_key) > 0 /\ metric_key[Len(metric_key)] \in Suffixes
    THEN SubSeq(metric_key, 1, Len(metric_key) - 1)
    ELSE metric_key

RECURSIVE LastMetricKey(_, _, _)
\* The greedy "[^>]*" followed by metricKey="([^"]+)": the last metricKey
\* attribute with a value after position i and before the next ">"; best is
\* the last one found so far, 0 when there is none.
LastMetricKey(t, i, best) ==
  IF i > Len(t) \/ t[i].k = "close" THEN best
  ELSE IF t[i].k = "metricKey" /\ t[i].v # <<>> THEN LastMetricKey(t, i + 1, i)
  ELSE LastMetricKey(t, i + 1, best)

\* The pattern tried at position i:
\*   sensorType="([a-z]+)"[^>]*metricKey="([^"]+)"
\* the position of the matched metricKey attribute, 0 without a match.
RefMatchAt(t, i) ==
  IF /\ t[i].k = "sensorType"
     /\ Len(t[i].v) = 1 /\ t[i].v[1] \in LowerWords
    THEN LastMetricKey(t, i + 1, 0)
    ELSE 0

RECURSIVE RefsFrom(_, _, _)
\* The loop over re.finditer(...) on the text of one widget file.
RefsFrom(name, t, pos) ==
  IF pos > Len(t) THEN <<>>
  ELSE LET m == RefMatchAt(t, pos)
       IN  IF m = 0 THEN RefsFrom(name, t, pos + 1)
           ELSE << [file       |-> name,
                    sensorType |-> t[pos].v[1],
                    metricKey  |-> StripSuffix(t[m].v),
                    original   |-> t[m].v] >>
                  \o RefsFrom(name, t, m + 1)

\* A deduplication key that leaves the file out.
DedupKey_NoFile(ref) == <<ref.sensorType, "|">> \o ref.metricKey

\* key = f"{ref['file']}|{ref['sensorType']}|{ref['metricKey']}"
DedupKey(ref) == <<ref.file, "|", ref.sensorType, "|">> \o ref.metricKey


\* ---------------------------------------------------------------- state
VARIABLES
  registry,   \* the text of the registry file on disk
  original,   \* the text the registry file held before the first run
  before,     \* the text the registry file held when the current run began
  pc,         \* where the running script is
  tool,       \* the script that runs, or ran last
  content,    \* the text the script read
  result,     \* the text the script is about to write
  console,    \* the keys the Assigner warned about in this run
  files,      \* src/widgets: file name -> text
  schemas,    \* the Validator's schema map: sensor type -> field keys
  todo,       \* the widget files the Validator has still to scan
  widget_refs, \* the references the Validator has extracted
  idx,        \* the reference the validation loop is at
  seen,       \* the keys of the references checked so far
  errors,     \* the Validator's error lines
  warnings,   \* the Validator's warning lines
  report,     \* what the Validator printed last
  vpc         \* where the Validator is

rvars == <<registry, original, before, pc, tool, content, result, console>>
vvars == <<files, schemas, todo, widget_refs, idx, seen, errors, warnings,
           report, vpc>>
vars == <<rvars, vvars>>

\* The maintenance scripts before their first run, on some registry file.
RegistryInit ==
  /\ registry \in RegistryTexts
  /\ original = registry
  /\ before = registry
  /\ pc = "idle"
  /\ tool = "none"
  /\ content = <<>>
  /\ result = <<>>
  /\ console = <<>>

\* The Validator after it has built the schema map and before it scans the
\* widget files.
ValidatorInit ==
  /\ \E n \in -1..MaxRefs, m \in -1..MaxRefs :
       /\ (IF n < 0 THEN 0 ELSE n) + (IF m < 0 THEN 0 ELSE m) <= MaxRefs
       /\ ~(n < 0 /\ m < 0)
       /\ IsWidgetDir(files, n, m)
  /\ schemas \in SchemaMaps
  /\ todo = Glob(files)
  /\ widget_refs = <<>>
  /\ idx = 1
  /\ seen = {}
  /\ errors = <<>>
  /\ warnings = <<>>
  /\ report = "none"
  /\ vpc = "extract"

\* The state of the scripts, or of the Validator, while the others are checked.
RegistryIdle ==
  /\ registry = <<>> /\ original = <<>> /\ before = <<>>
  /\ pc = "off" /\ tool = "none"
  /\ content = <<>> /\ result = <<>> /\ console = <<>>

ValidatorIdle ==
  /\ files = <<>> /\ schemas = <<>> /\ todo = {}
  /\ widget_refs = <<>> /\ idx = 1 /\ seen = {}
  /\ errors = <<>> /\ warnings = <<>> /\ report = "none" /\ vpc = "off"

Init == RegistryInit /\ ValidatorIdle

\* What a failed write leaves in the emptied file: the text goes to the disk
\* chunk by chunk, and the failure comes before the last chunk is out.
TornWrites(text) ==
  { SubSeq(text, 1, n * ChunkTokens) :
      n \in 0..((Len(text) - 1) \div ChunkTokens) }

\* A script is started when no script runs.
CanStart == pc \in {"idle", "done"}

\* process_file: open(filepath, 'r') and f.read(); an I/O failure ends the run.
AssignerRead ==
  /\ CanStart
  /\ tool' = "assigner"
  /\ before' = registry
  /\ result' = <<>>
  /\ console' = <<>>
  /\ \/ pc' = "read" /\ content' = registry
     \/ pc' = "failed" /\ content' = <<>>
  /\ UNCHANGED <<registry, original>>
  /\ UNCHANGED vvars

\* process_file: the loop over the matches, then open(filepath, 'w'), which
\* empties the file when it succeeds.
AssignerOpenWrite ==
  /\ pc = "read" /\ tool = "assigner"
  /\ LET done == ProcessFrom(content, 1, 0)
     IN  result' = done.text /\ console' = done.out
  /\ \/ pc' = "opened" /\ registry' = <<>>
     \/ pc' = "failed" /\ registry' = registry
  /\ UNCHANGED <<original, before, tool, content>>
  /\ UNCHANGED vvars

\* process_file: f.write(result) and the close of the file; a failure leaves
\* the part of the text that reached the disk.
AssignerWrite ==
  /\ pc = "opened" /\ tool = "assigner"
  /\ \/ pc' = "done" /\ registry' = result
     \/ /\ pc' = "failed"
        /\ registry' \in TornWrites(result)
  /\ UNCHANGED <<original, before, tool, content, result, console>>
  /\ UNCHANGED vvars

\* remove-alarm-mnemonics.py: open(filepath, 'r') and f.read().
RemoverRead ==
  /\ CanStart
  /\ tool' = "remover"
  /\ before' = registry
  /\ result' = <<>>
  /\ console' = <<>>
  /\ \/ pc' = "read" /\ content' = registry
     \/ pc' = "failed" /\ content' = <<>>
  /\ UNCHANGED <<registry, original>>
  /\ UNCHANGED vvars

\* remove-alarm-mnemonics.py: the substitution, then open(filepath, 'w').
RemoverOpenWrite ==
  /\ pc = "read" /\ tool = "remover"
  /\ result' = RemoveText(content)
  /\ \/ pc' = "opened" /\ registry' = <<>>
     \/ pc' = "failed" /\ registry' = registry
  /\ UNCHANGED <<original, before, tool, content, console>>
  /\ UNCHANGED vvars

\* remove-alarm-mnemonics.py: f.write(result) and the close of the file.
RemoverWrite ==
  /\ pc = "opened" /\ tool = "remover"
  /\ \/ pc' = "done" /\ registry' = result
     \/ /\ pc' = "failed"
        /\ registry' \in TornWrites(result)
  /\ UNCHANGED <<original, before, tool, content, result, console>>
  /\ UNCHANGED vvars

Next ==
  \/ AssignerRead
  \/ AssignerOpenWrite
  \/ AssignerWrite
  \/ RemoverRead
  \/ RemoverOpenWrite
  \/ RemoverWrite

Spec == Init /\ [][Next]_vars

\* The Assigner run again and again, and no other script.
AssignerNext ==
  \/ AssignerRead
  \/ AssignerOpenWrite
  \/ AssignerWrite

AssignerSpec == Init /\ [][AssignerNext]_vars

\* ------------------------------------------------------ Validator steps
\* The body of "for widget_file in widgets_dir.glob('*Widget.tsx')": the
\* directory hands the files over in no particular order.
ExtractFile ==
  /\ vpc = "extract"
  /\ \E f \in todo :
       /\ widget_refs' = widget_refs \o RefsFrom(f, files[f], 1)
       /\ todo' = todo \ {f}
  /\ UNCHANGED <<files, schemas, idx, seen, errors, warnings, report, vpc>>
  /\ UNCHANGED rvars

\* The end of the scan: print("=== VALIDATION RESULTS ===") and the empty
\* errors, warnings and seen.
BeginValidation ==
  /\ vpc = "extract" /\ todo = {}
  /\ vpc' = "validate"
  /\ idx' = 1 /\ seen' = {} /\ errors' = <<>> /\ warnings' = <<>>
  /\ UNCHANGED <<files, schemas, todo, widget_refs, report>>
  /\ UNCHANGED rvars

\* The lines the loop body appends to errors for a reference not seen before.
RefErrors(ref, sch) ==
  IF ref.sensorType \notin DOMAIN sch
    THEN << [kind |-> "unknownSensor", file |-> ref.file,
             sensorType |-> ref.sensorType, metricKey |-> <<>>,
             fields |-> <<>>] >>
  ELSE IF \A n \in 1..Len(sch[ref.sensorType]) :
            <<sch[ref.sensorType][n]>> # ref.metricKey
    THEN << [kind |-> "notInSchema", file |-> ref.file,
             sensorType |-> ref.sensorType, metricKey |-> ref.metricKey,
             fields |-> <<>>],
            [kind |-> "schemaHas", file |-> "", sensorType |-> "",
             metricKey |-> <<>>, fields |-> sch[ref.sensorType]] >>
  ELSE <<>>

\* The loop body with the references of CustomWidget.tsx left unchecked.
ValidateRef_SkipCustom ==
  /\ vpc = "validate" /\ idx <= Len(widget_refs)
  /\ LET ref == widget_refs[idx]
         key == DedupKey(ref)
     IN  IF key \in seen \/ ref.file = "CustomWidget.tsx"
           THEN UNCHANGED <<seen, errors>>
           ELSE /\ seen' = seen \cup {key}
                /\ errors' = errors \o RefErrors(ref, schemas)
  /\ idx' = idx + 1
  /\ UNCHANGED <<files, schemas, todo, widget_refs, warnings, report, vpc>>
  /\ UNCHANGED rvars

\* One pass of "for ref in widget_refs".
ValidateRef ==
  /\ vpc = "validate" /\ idx <= Len(widget_refs)
  /\ LET ref == widget_refs[idx]
         key == DedupKey(ref)
     IN  IF key \in seen
           THEN UNCHANGED <<seen, errors>>
           ELSE /\ seen' = seen \cup {key}
                /\ errors' = errors \o RefErrors(ref, schemas)
  /\ idx' = idx + 1
  /\ UNCHANGED <<files, schemas, todo, widget_refs, warnings, report, vpc>>
  /\ UNCHANGED rvars

\* if (widgets_dir / 'CustomWidget.tsx').exists(): warnings.append(...)
CheckCustomWidget ==
  /\ vpc = "validate" /\ idx > Len(widget_refs)
  /\ warnings' = IF "CustomWidget.tsx" \in DOMAIN files
                   THEN Append(warnings, "dynamicKey")
                   ELSE warnings
  /\ vpc' = "report"
  /\ UNCHANGED <<files, schemas, todo, widget_refs, idx, seen, errors, report>>
  /\ UNCHANGED rvars

\* The lines of errors that start with the cross: the findings.
Findings(errs) == SelectSeq(errs, LAMBDA e : e.kind # "schemaHas")

\* The final report: the success line, or the errors, the warnings and the
\* count line.
EmitReport ==
  /\ vpc = "report"
  /\ report' = IF errors = <<>> /\ warnings = <<>>
                 THEN "allValid"
                 ELSE <<Len(Findings(errors)), Len(warnings)>>
  /\ vpc' = "done"
  /\ UNCHANGED <<files, schemas, todo, widget_refs, idx, seen, errors, warnings>>
  /\ UNCHANGED rvars

ValidatorNext ==
  \/ ExtractFile
  \/ BeginValidation
  \/ ValidateRef
  \/ CheckCustomWidget
  \/ EmitReport

ValidatorStart == RegistryIdle /\ ValidatorInit

ValidatorSpec == ValidatorStart /\ [][ValidatorNext]_vars

\* ============================================ properties of the registry
\* What the properties below mean by a block: a bracket and the bracket that
\* closes it, found by counting the nesting depth.
RECURSIVE MatchFrom(_, _, _, _, _)
MatchFrom(t, i, depth, open, close) ==
  IF i > Len(t) THEN 0
  ELSE IF t[i] = close
         THEN (IF depth = 1 THEN i ELSE MatchFrom(t, i + 1, depth - 1, open, close))
  ELSE IF t[i] = open THEN MatchFrom(t, i + 1, depth + 1, open, close)
  ELSE MatchFrom(t, i + 1, depth, open, close)

\* The position of the bracket closing the one at position i; 0 without one.
ClosingOf(t, i, open, close) == MatchFrom(t, i + 1, 1, open, close)

\* The opening braces of the field definition blocks: a brace whose first
\* property is the key declaration, and which is closed.
FieldOpens(t) ==
  { i \in 1..Len(t) :
      /\ t[i] = "{"
      /\ SkipWs(t, i + 1) <= Len(t) /\ t[SkipWs(t, i + 1)] = "key:"
      /\ ClosingOf(t, i, "{", "}") # 0 }

\* The k-th smallest element of a set of positions.
RECURSIVE Nth(_, _)
Nth(S, k) ==
  LET m == CHOOSE x \in S : \A y \in S : x <= y
  IN  IF k = 1 THEN m ELSE Nth(S \ {m}, k - 1)

\* The k-th field definition block of a text: from its brace to the closing one.
FieldBlock(t, k) ==
  LET i == Nth(FieldOpens(t), k) IN SubSeq(t, i, ClosingOf(t, i, "{", "}"))

\* The key a field definition block declares.
BlockKey(b) == Unquote(b[SkipWs(b, SkipWs(b, 2) + 1)])

\* The indentation of the line of text t that position i lies on.
RECURSIVE LineStart(_, _)
LineStart(t, i) == IF i = 1 \/ t[i - 1] = NL THEN i ELSE LineStart(t, i - 1)
IndentAt(t, i) == SkipWs(t, LineStart(t, i)) - LineStart(t, i)

\* The lines of the k-th field block, the first one as it stands in the text.
BlockLines(t, k) ==
  LET i == Nth(FieldOpens(t), k)
      ls == SplitLines(FieldBlock(t, k))
  IN  [ls EXCEPT ![1] = SubSeq(t, LineStart(t, i), i - 1) \o ls[1]]

MnemonicLineNos(ls) == {p \in 1..Len(ls) : HasTok(ls[p], "mnemonic:")}

\* The values on the mnemonic lines among ls.
MnemonicValues(ls) ==
  UNION { { Unquote(ls[p][q]) :
              q \in {r \in 1..Len(ls[p]) : ls[p][r] \in QuotedWords} } :
          p \in MnemonicLineNos(ls) }

\* The alarmMetrics lists of a text: the bracket after "alarmMetrics:" and the
\* bracket that closes it.
AlarmSpans(t) ==
  { <<j, ClosingOf(t, j, "[", "]")>> :
      j \in { j \in 2..Len(t) :
                /\ t[j] = "["
                /\ \E i \in 1..(j - 1) :
                     t[i] = "alarmMetrics:" /\ SkipWs(t, i + 1) = j
                /\ ClosingOf(t, j, "[", "]") # 0 } }

\* Position i lies between the brackets of one of the lists S.
InSpans(S, i) == \E sp \in S : sp[1] < i /\ i < sp[2]

\* No mnemonic declaration stands in an alarmMetrics list.
AlarmClean(t) ==
  LET S == AlarmSpans(t)
  IN  \A i \in 1..Len(t) : t[i] = "mnemonic:" => ~InSpans(S, i)

RECURSIVE PickAlarm(_, _, _, _)
\* The tokens of t from position i on that lie inside (or outside) the
\* lists S, in order.
PickAlarm(t, S, i, inside) ==
  IF i > Len(t) THEN <<>>
  ELSE (IF InSpans(S, i) = inside THEN <<t[i]>> ELSE <<>>)
         \o PickAlarm(t, S, i + 1, inside)

\* The text outside the alarmMetrics lists, and the text inside them.
OutsideAlarm(t) == PickAlarm(t, AlarmSpans(t), 1, FALSE)
InsideAlarm(t) == PickAlarm(t, AlarmSpans(t), 1, TRUE)

AssignerDone == pc = "done" /\ tool = "assigner"
RemoverDone == pc = "done" /\ tool = "remover"

\* C1: the Assigner is idempotent: the text a finished Assigner run leaves in
\* the registry file is a text the Assigner maps to itself (running it again
\* changes nothing), whatever the shapes of the fields.
C1_AssignerIdempotent == AssignerDone => AssignText(registry) = registry

\* C1 witness: a finished Assigner run that inserted mnemonic lines, into a
\* text that also holds a field with a mnemonic of its own.
C1_Witness ==
  /\ AssignerDone
  /\ registry # content
  /\ HasTok(content, "mnemonic:")
  /\ \E k \in 1..Cardinality(FieldOpens(registry)) :
       Cardinality(MnemonicLineNos(BlockLines(registry, k))) = 2

\* The field definition block b of the Assigner's output holds exactly one
\* mnemonic line, right after a label line and indented like it.
GainedOne(ls) ==
  /\ Cardinality(MnemonicLineNos(ls)) = 1
  /\ \A p \in MnemonicLineNos(ls) :
       /\ p > 1
       /\ HasTok(ls[p - 1], "label:")
       /\ Indent(ls[p]) = Indent(ls[p - 1])

\* C2: after one Assigner run every field definition block that held no
\* mnemonic declaration holds exactly one mnemonic line, right after its
\* label line and with the indentation of the label line.
C2_EveryFieldGainsOne ==
  AssignerDone =>
    /\ Cardinality(FieldOpens(registry)) = Cardinality(FieldOpens(content))
    /\ \A k \in 1..Cardinality(FieldOpens(content)) :
         ~HasTok(FieldBlock(content, k), "mnemonic:")
           => GainedOne(BlockLines(registry, k))

\* C3: the mnemonic the Assigner writes into a field definition block is the
\* one of that block's own key: the table's value for a key of the table,
\* else the first five characters of the uppercased key with a warning that
\* names the key; and the block holds no mnemonic of another value.
C3_OwnKeyMnemonic ==
  AssignerDone =>
    \A k \in 1..Cardinality(FieldOpens(content)) :
      ~HasTok(FieldBlock(content, k), "mnemonic:") =>
        LET key == BlockKey(FieldBlock(content, k))
        IN  /\ Cardinality(FieldOpens(registry)) >= k
            /\ MnemonicValues(BlockLines(registry, k))
                 = {IF key \in DOMAIN MNEMONICS THEN MNEMONICS[key]
                                               ELSE Upper5(key)}
            /\ key \notin DOMAIN MNEMONICS
                 => \E w \in 1..Len(console) : console[w] = key

\* C4: after one Remover run no mnemonic declaration is left between the
\* brackets of any alarmMetrics list.
C4_AlarmListsStripped == RemoverDone => AlarmClean(registry)

\* C5: the Remover changes nothing outside the alarmMetrics lists, and inside
\* them it deletes mnemonic lines only.
C5_RemoverFrame ==
  RemoverDone =>
    /\ OutsideAlarm(registry) = OutsideAlarm(content)
    /\ FilterLines(SplitLines(InsideAlarm(registry)))
         = FilterLines(SplitLines(InsideAlarm(content)))

\* C6: when no field of an alarmMetrics list carried a mnemonic line before
\* the first run, none does after any sequence of Assigner and Remover runs.
C6_AlarmListsStayClean ==
  (AlarmClean(original) /\ pc \in {"idle", "done"}) => AlarmClean(registry)

\* C10: once a run has begun, the registry file holds the complete text it
\* held when the run began or the complete transformed text, in every state.
C10_NoPartialOverwrite ==
  tool # "none" =>
    \/ registry = before
    \/ tool = "assigner" /\ registry = AssignText(before)
    \/ tool = "remover" /\ registry = RemoveText(before)

\* =========================================== properties of the Validator
\* The raw metric key with one trailing ".min", ".max" or ".avg" removed.
BaseKey(raw) ==
  IF raw # <<>> /\ raw[Len(raw)] \in {".min", ".max", ".avg"}
    THEN [n \in 1..(Len(raw) - 1) |-> raw[n]]
    ELSE raw

\* The distinct triples (file, sensorType, baseMetricKey) of references.
Triples(refs) ==
  { <<refs[n].file, refs[n].sensorType, BaseKey(refs[n].original)>> :
      n \in 1..Len(refs) }

KnownSensor(tr) == tr[2] \in DOMAIN schemas
KnownKey(tr) ==
  \E n \in 1..Len(schemas[tr[2]]) : <<schemas[tr[2]][n]>> = tr[3]
FailsCheck(tr) == ~KnownSensor(tr) \/ ~KnownKey(tr)

\* The number of error lines of a kind for a file and a sensor type (and,
\* with a metric key given, for that key).
CountErrors(kind, file, sensor, anyKey, key) ==
  Cardinality({ n \in 1..Len(errors) :
                  /\ errors[n].kind = kind
                  /\ errors[n].file = file
                  /\ errors[n].sensorType = sensor
                  /\ (anyKey \/ errors[n].metricKey = key) })

\* The findings are those the triples T call for: one UnknownSensorType for a
\* triple of an unknown sensor type, one UnknownMetricKey for a triple whose
\* base key the sensor type lacks, and none for a triple that passes.
FindingsMatch(T) ==
  /\ \A tr \in T :
       IF KnownSensor(tr)
         THEN /\ CountErrors("notInSchema", tr[1], tr[2], FALSE, tr[3])
                   = (IF KnownKey(tr) THEN 0 ELSE 1)
              /\ CountErrors("unknownSensor", tr[1], tr[2], TRUE, <<>>) = 0
         ELSE /\ CountErrors("unknownSensor", tr[1], tr[2], TRUE, <<>>)
                   = Cardinality({o \in T : o[1] = tr[1] /\ o[2] = tr[2]})
              /\ CountErrors("notInSchema", tr[1], tr[2], TRUE, <<>>) = 0

\* C7: for every distinct triple (file, sensorType, baseMetricKey) among the
\* references the loop has passed, the Validator has emitted exactly one
\* finding if its check fails and none if it passes; an UnknownMetricKey
\* finding is followed by the full field-key list of its sensor type; and the
\* loop reaches the end of the references whatever findings it made.
C7_OneFindingPerTriple ==
  vpc \in {"validate", "report", "done"} =>
    LET T == Triples(SubSeq(widget_refs, 1, idx - 1))
    IN  /\ FindingsMatch(T)
        /\ Len(Findings(errors)) = Cardinality({tr \in T : FailsCheck(tr)})
        /\ \A n \in 1..Len(errors) :
             errors[n].kind = "notInSchema" =>
               /\ n < Len(errors)
               /\ errors[n + 1].kind = "schemaHas"
               /\ errors[n + 1].fields = schemas[errors[n].sensorType]
        /\ vpc \in {"report", "done"} => idx = Len(widget_refs) + 1

\* C7 witness: a finished run in which two references with different raw keys
\* fell into one triple, reported once as an unknown metric key.
C7_Witness ==
  /\ vpc = "done"
  /\ Len(widget_refs) = 2
  /\ widget_refs[1].original # widget_refs[2].original
  /\ Cardinality(Triples(widget_refs)) = 1
  /\ Len(Findings(errors)) = 1
  /\ errors[1].kind = "notInSchema"

RECURSIVE TagPairs(_, _, _, _)
\* The (sensorType, metricKey) pairs of the tags of a text that carry both
\* attributes, in order, whichever attribute comes first; st and mk are the
\* attribute values met in the tag read so far.
TagPairs(t, i, st, mk) ==
  IF i > Len(t) THEN <<>>
  ELSE IF t[i].k = "open" THEN TagPairs(t, i + 1, <<>>, <<>>)
  ELSE IF t[i].k = "sensorType" THEN TagPairs(t, i + 1, t[i].v, mk)
  ELSE IF t[i].k = "metricKey" THEN TagPairs(t, i + 1, st, t[i].v)
  ELSE IF t[i].k = "close"
    THEN (IF st # <<>> /\ mk # <<>> THEN <<st \o mk>> ELSE <<>>)
           \o TagPairs(t, i + 1, <<>>, <<>>)
  ELSE TagPairs(t, i + 1, st, mk)

\* The (sensorType, raw metricKey) pairs recorded for file f, in order.
RecordedPairs(f) ==
  LET rs == SelectSeq(widget_refs, LAMBDA r : r.file = f)
  IN  [n \in 1..Len(rs) |-> <<rs[n].sensorType>> \o rs[n].original]

\* C9: the references recorded for a scanned file are the pairs of its tags
\* that carry both attributes, in either attribute order, and no others.
C9_EitherAttributeOrder ==
  vpc \in {"validate", "report", "done"} =>
    \A f \in Glob(files) : RecordedPairs(f) = TagPairs(files[f], 1, <<>>, <<>>)

====
